---- MODULE Spec2Model ----
(***************************************************************************)
(* conans/client/downloaders/download_cache.py : class DownloadCache       *)
(*                                                                         *)
(*   Spec       the two-layer lock  DownloadCache.lock(lock_id)  run by    *)
(*              several threads of several processes                       *)
(*   SpecMeta   sequences of update_backup_sources_json calls on the       *)
(*              source-backups folder                                      *)
(*   SpecSelect get_backup_sources_files_to_upload on the folders that     *)
(*              such calls leave                                           *)
(*   SpecMerge  one update_backup_sources_json call on a sidecar that      *)
(*              exists already                                             *)
(*   SpecReentrant  lock() called again from the body of lock()            *)
(*   SpecIOError    lock() when the lock file cannot be created            *)
(*   SpecLocked     update_backup_sources_json inside lock(), its load     *)
(*                  and its save being separate steps                      *)
(*   SpecFair       lock() under fair scheduling                           *)
(***************************************************************************)
EXTENDS Integers, Sequences, FiniteSets, TLC

VARIABLES
    platform,       \* what the file lock does between threads of one process
    pc,             \* pc[t]: where thread t is inside lock()
    self_,          \* self_[t]: the DownloadCache instance of t's call
    lock_id,        \* lock_id[t]: the argument of t's call
    lock,           \* lock[t]: the local `lock`, the lock-file path
    thread_lock,    \* thread_lock[t]: the local `thread_lock`
    exc,            \* exc[t]: an exception raised by the body is propagating
    released,       \* released[t]: what t's call has released so far, in order
    fileLock,       \* fileLock[path]: the threads whose SimpleLock holds the file
    registry,       \* registry[p]: DownloadCache._thread_locks of process p
    mutexHolder,    \* mutexHolder[m]: the thread that acquired Lock m, or Free
    backupsDir,     \* the folder <root>/s exists
    fs,             \* fs[path]: the content of the file at path
    now,            \* the clock read by timestamp_now()
    lastCall,       \* the arguments of the latest update_backup_sources_json
    repeated,       \* the latest call had the arguments of the call before it
    before,         \* fs as it was when the latest call started
    supplied,       \* supplied[path][key]: every URL passed for key, in order
    loaded,         \* loaded[t]: the summary an update by thread t has read
    result,         \* what the latest get_backup_sources_files_to_upload did
    selArgs         \* the arguments of that call and the folder listing it got

lockVars == <<platform, pc, self_, lock_id, lock, thread_lock, exc, released,
              fileLock, registry, mutexHolder>>

metaVars == <<backupsDir, fs, now, lastCall, repeated, before, supplied, loaded>>

selVars == <<result, selArgs>>

vars == <<lockVars, metaVars, selVars>>

-----------------------------------------------------------------------------
(* The processes, their threads, the cache objects and the lock ids.       *)

Procs == {"p1", "p2"}

Threads == {"t1", "t2", "t3"}

ProcOf(t) == IF t = "t3" THEN "p2" ELSE "p1"

\* a call of lock() made by the body of a call of lock(): the frame of the
\* inner call, on the thread of the outer one
InnerFrames == {"t1i"}

Frames == Threads \cup InnerFrames

ThreadOf(f) == IF f = "t1i" THEN "t1" ELSE f

Instances == {"i1", "i2"}

LockIds == {"x", "y"}

None == "None"

Free == "free"

\* a local that is not bound yet
Unbound == <<>>

\* self._path, set by __init__: the two objects share one cache root
Path(s) == "/cache"

\* _LOCKS = "locks"
LOCKS == "locks"

\* os.path.join(a, b, c)
Join(a, b, c) == a \o "/" \o b \o "/" \o c

LockPathAnyId(s, id) == Join(Path(s), LOCKS, "lock")

\* lock = os.path.join(self._path, self._LOCKS, lock_id)
LockPath(s, id) == Join(Path(s), LOCKS, id)

Paths == {Join(Path(s), LOCKS, id) : s \in Instances, id \in LockIds}
            \cup {Join(Path(s), LOCKS, "lock") : s \in Instances}

\* Lock(): a new mutex object; its identity is who created it and for what
NewLock(t, path) == <<t, path>>

Mutexes == {NewLock(t, p) : t \in Frames, p \in Paths}

\* d[k] = v
SetItem(d, k, v) == [x \in DOMAIN d \cup {k} |-> IF x = k THEN v ELSE d[x]]

SetDefaultReplacing(d, k, v) == SetItem(d, k, v)

\* dict.setdefault(k, v): the dict afterwards; an existing entry is kept
SetDefault(d, k, v) == IF k \in DOMAIN d THEN d ELSE SetItem(d, k, v)

EmptyDict == [x \in {} |-> Unbound]

-----------------------------------------------------------------------------
(* SimpleLock(path): the advisory file lock between processes.  The lock    *)
(* belongs to the process on a "posix" platform (record locks: a second     *)
(* handle of the same process is granted at once, and releasing any handle  *)
(* gives up the process's lock), and to the handle on a "handle" platform.  *)

Platforms == {"posix", "handle"}

\* SimpleLock.__enter__ returns (it blocks until this holds)
CanAcquireFile(t) ==
    IF platform = "posix"
    THEN \A u \in fileLock[lock[t]] : ProcOf(u) = ProcOf(t)
    ELSE fileLock[lock[t]] = {}

\* the holders of the file after SimpleLock.__exit__ by thread t
AfterReleaseFile(t) ==
    IF platform = "posix"
    THEN {u \in fileLock[lock[t]] : ProcOf(u) # ProcOf(t)}
    ELSE fileLock[lock[t]] \ {t}

-----------------------------------------------------------------------------
(* DownloadCache.lock(lock_id), a context manager, statement by statement.  *)

InitLock ==
    /\ platform \in Platforms
    /\ pc = [t \in Frames |-> "idle"]
    /\ self_ = [t \in Frames |-> None]
    /\ lock_id = [t \in Frames |-> None]
    /\ lock = [t \in Frames |-> None]
    /\ thread_lock = [t \in Frames |-> Unbound]
    /\ exc = [t \in Frames |-> FALSE]
    /\ released = [t \in Frames |-> <<>>]
    /\ fileLock = [p \in Paths |-> {}]
    /\ registry = [p \in Procs |-> EmptyDict]
    /\ mutexHolder = [m \in Mutexes |-> Free]

\* with cache.lock(id): ...  is entered; line 37
Call(t, s, id) ==
    /\ pc[t] = "idle"
    /\ self_' = [self_ EXCEPT ![t] = s]
    /\ lock_id' = [lock_id EXCEPT ![t] = id]
    /\ lock' = [lock EXCEPT ![t] = LockPath(s, id)]
    /\ pc' = [pc EXCEPT ![t] = "enter"]
    /\ UNCHANGED <<metaVars, selVars, platform, thread_lock, exc, released, fileLock, registry,
                   mutexHolder>>

\* with SimpleLock(lock): the file lock is granted; line 38
EnterSimpleLock(t) ==
    /\ pc[t] = "enter"
    /\ CanAcquireFile(t)
    /\ fileLock' = [fileLock EXCEPT ![lock[t]] = @ \cup {t}]
    /\ pc' = [pc EXCEPT ![t] = "setdefault"]
    /\ UNCHANGED <<metaVars, selVars, platform, self_, lock_id, lock, thread_lock, exc, released,
                   registry, mutexHolder>>

AfterEnterErrorIgnored == "setdefault"

\* where control goes when SimpleLock.__enter__ raises: out of lock()
AfterEnterError == "failed"

\* with SimpleLock(lock): the lock file cannot be created, IOError; line 38
FailSimpleLock(t) ==
    /\ pc[t] = "enter"
    /\ exc' = [exc EXCEPT ![t] = TRUE]
    /\ pc' = [pc EXCEPT ![t] = AfterEnterError]
    /\ UNCHANGED <<metaVars, selVars, platform, self_, lock_id, lock, thread_lock, released,
                   fileLock, registry, mutexHolder>>

\* thread_lock = self._thread_locks.setdefault(lock, Lock()); line 41
LookUpThreadLock(t) ==
    /\ pc[t] = "setdefault"
    /\ LET d == SetDefault(registry[ProcOf(t)], lock[t], NewLock(t, lock[t]))
       IN  /\ registry' = [registry EXCEPT ![ProcOf(t)] = d]
           /\ thread_lock' = [thread_lock EXCEPT ![t] = d[lock[t]]]
    /\ pc' = [pc EXCEPT ![t] = "acquire"]
    /\ UNCHANGED <<metaVars, selVars, platform, self_, lock_id, lock, exc, released, fileLock,
                   mutexHolder>>

\* a mutex that its holder's thread can acquire again
CanAcquireMutexReentrant(t) ==
    \/ mutexHolder[thread_lock[t]] = Free
    \/ ThreadOf(mutexHolder[thread_lock[t]]) = ThreadOf(t)

\* Lock().acquire() can return: the mutex is unlocked, whoever locked it
CanAcquireMutex(t) == mutexHolder[thread_lock[t]] = Free

\* thread_lock.acquire() returns (it blocks while the mutex is locked); line 42
AcquireThreadLock(t) ==
    /\ pc[t] = "acquire"
    /\ CanAcquireMutex(t)
    /\ mutexHolder' = [mutexHolder EXCEPT ![thread_lock[t]] = t]
    /\ pc' = [pc EXCEPT ![t] = "body"]
    /\ UNCHANGED <<metaVars, selVars, platform, self_, lock_id, lock, thread_lock, exc, released,
                   fileLock, registry>>

AfterBodyNoFinally(raised) == IF raised THEN "exit" ELSE "finally"

\* try: yield  finally: ...   where control goes when the body is over
AfterBody(raised) == "finally"

\* yield: the body of the with statement runs, and returns or raises; line 44
Body(t, raised) ==
    /\ pc[t] = "body"
    /\ exc' = [exc EXCEPT ![t] = raised]
    /\ pc' = [pc EXCEPT ![t] = AfterBody(raised)]
    /\ UNCHANGED <<metaVars, selVars, platform, self_, lock_id, lock, thread_lock, released,
                   fileLock, registry, mutexHolder>>

\* finally: thread_lock.release(); line 46
ReleaseThreadLock(t) ==
    /\ pc[t] = "finally"
    /\ mutexHolder' = [mutexHolder EXCEPT ![thread_lock[t]] = Free]
    /\ released' = [released EXCEPT ![t] = Append(@, "mutex")]
    /\ pc' = [pc EXCEPT ![t] = "exit"]
    /\ UNCHANGED <<metaVars, selVars, platform, self_, lock_id, lock, thread_lock, exc, fileLock,
                   registry>>

\* SimpleLock.__exit__, leaving the with block of line 38
ExitSimpleLock(t) ==
    /\ pc[t] = "exit"
    /\ fileLock' = [fileLock EXCEPT ![lock[t]] = AfterReleaseFile(t)]
    /\ released' = [released EXCEPT ![t] = Append(@, "file")]
    /\ pc' = [pc EXCEPT ![t] = "done"]
    /\ UNCHANGED <<metaVars, selVars, platform, self_, lock_id, lock, thread_lock, exc, registry,
                   mutexHolder>>

\* the with statement is over (exc[t]: an exception reaches the caller)
Return(t) ==
    /\ pc[t] \in {"done", "failed"}
    /\ pc' = [pc EXCEPT ![t] = "idle"]
    /\ self_' = [self_ EXCEPT ![t] = None]
    /\ lock_id' = [lock_id EXCEPT ![t] = None]
    /\ lock' = [lock EXCEPT ![t] = None]
    /\ thread_lock' = [thread_lock EXCEPT ![t] = Unbound]
    /\ exc' = [exc EXCEPT ![t] = FALSE]
    /\ released' = [released EXCEPT ![t] = <<>>]
    /\ UNCHANGED <<metaVars, selVars, platform, fileLock, registry, mutexHolder>>

-----------------------------------------------------------------------------
(* The source-backups folder <root>/s: blobs named by their sha256 and one  *)
(* JSON sidecar <sha256>.json per blob.                                      *)

\* _SOURCE_BACKUP = "s"
SOURCE_BACKUP == "s"

CacheRoot == "/cache"

\* os.path.join(a, b)
Join2(a, b) == a \o "/" \o b

\* DownloadCache.source_path(sha256)
source_path(sha256) == Join(CacheRoot, SOURCE_BACKUP, sha256)

\* path_backups = os.path.join(self._path, self._SOURCE_BACKUP)
path_backups == Join2(CacheRoot, SOURCE_BACKUP)

Shas == {"aa", "bb"}

Urls == {"xa", "xb", "yc"}

\* the package references a conanfile can carry (conanfile.ref)
Refs == {[name |-> "pkg", version |-> "1.0"], [name |-> "dep", version |-> "2.0"]}

\* str(ref), the textual form of a package reference
Str(ref) == ref.name \o "/" \o ref.version

\* the caller's conanfile: one with a ref attribute, or one without
ConanFiles == {[has_ref |-> TRUE, ref |-> r] : r \in Refs} \cup {[has_ref |-> FALSE]}

\* the sequences over S of length at most n
SeqsUpTo(S, n) == UNION {[1..k -> S] : k \in 0..n}

MaxUrls == 2

\* the urls argument: a single string, a list or a tuple
UrlArgs ==
    {[type |-> "str", url |-> u] : u \in Urls}
        \cup {[type |-> ty, items |-> l] : ty \in {"list", "tuple"},
                                           l \in SeqsUpTo(Urls, MaxUrls)}

InList(x, l) == \E i \in DOMAIN l : l[i] = x

-----------------------------------------------------------------------------
(* A Python dict that is iterated keeps its insertion order: it is a        *)
(* sequence of <<key, value>> pairs with distinct keys.                     *)

Keys(d) == {d[i][1] : i \in DOMAIN d}

\* d[k]
Get(d, k) == d[CHOOSE i \in DOMAIN d : d[i][1] = k][2]

\* d[k] = v
Put(d, k, v) ==
    IF k \in Keys(d)
    THEN [i \in DOMAIN d |-> IF d[i][1] = k THEN <<k, v>> ELSE d[i]]
    ELSE Append(d, <<k, v>>)

-----------------------------------------------------------------------------
(* json.dumps and json.loads of the sidecar document.  A JSON text is a     *)
(* tree of tagged values: object, array, string, number.                    *)

JString(s) == <<"string", s>>

JNumber(n) == <<"number", n>>

JArray(items) == <<"array", items>>

JObject(members) == <<"object", members>>

\* json.dumps(summary)
JsonDumps(summary) ==
    JObject(<<
        <<"references",
          JObject([i \in DOMAIN summary.references |->
              <<summary.references[i][1],
                JArray([j \in DOMAIN summary.references[i][2] |->
                            JString(summary.references[i][2][j])])>>])>>,
        <<"timestamp", JNumber(summary.timestamp)>> >>)

\* the value of member `name` of a JSON object
Member(obj, name) == Get(obj[2], name)

\* json.loads(text) of a sidecar
JsonLoads(text) ==
    LET refs == Member(text, "references")[2]
    IN  [references |-> [i \in DOMAIN refs |->
                            <<refs[i][1],
                              [j \in DOMAIN refs[i][2][2] |-> refs[i][2][2][j][2]]>>],
         timestamp |-> Member(text, "timestamp")[2]]

-----------------------------------------------------------------------------
(* update_backup_sources_json(cached_path, conanfile, urls)                 *)

MaxCalls == 3

NoCall == [made |-> FALSE]

EmptyFs == [x \in {} |-> <<>>]

BlobContent == <<"blob">>

\* save(path, content): the whole file is overwritten
Save(files, path, content) == SetItem(files, path, content)

\* os.path.exists(path) for a file
Exists(files, path) == path \in DOMAIN files

ReadSummaryNewStamp(files, summary_path, clock) ==
    IF Exists(files, summary_path)
    THEN [JsonLoads(files[summary_path]) EXCEPT !.timestamp = clock]
    ELSE [references |-> <<>>, timestamp |-> clock]

\* lines 99-102: the document that is updated
ReadSummary(files, summary_path, clock) ==
    IF Exists(files, summary_path)
    THEN JsonLoads(files[summary_path])
    ELSE [references |-> <<>>, timestamp |-> clock]

SummaryKeyNoFallback(conanfile) ==
    IF conanfile.has_ref THEN Str(conanfile.ref) ELSE "None"

\* lines 104-109: str(conanfile.ref), or "unknown" on AttributeError
SummaryKey(conanfile) ==
    IF conanfile.has_ref THEN Str(conanfile.ref) ELSE "unknown"

\* lines 111-112: urls as a list
AsList(urls) == IF urls.type \in {"list", "tuple"} THEN urls.items ELSE <<urls.url>>

ExtendAll(existing_urls, urls) == existing_urls \o urls

ExtendFilteredFirst(existing_urls, urls) ==
    existing_urls \o SelectSeq(urls, LAMBDA u : ~InList(u, existing_urls))

\* the merged list rebuilt without repeated URLs
ExtendDeduplicating(existing_urls, urls) ==
    LET all == existing_urls \o urls
        firsts == {i \in DOMAIN all : \A j \in 1..(i - 1) : all[j] # all[i]}
    IN  [k \in 1..Cardinality(firsts) |->
            all[CHOOSE i \in firsts : Cardinality({j \in firsts : j <= i}) = k]]

RECURSIVE Extend(_, _)
\* line 114: existing_urls.extend(url for url in urls if url not in existing_urls);
\* the generator tests each url against the list as extended so far
Extend(existing_urls, urls) ==
    IF urls = <<>>
    THEN existing_urls
    ELSE Extend(IF InList(Head(urls), existing_urls)
                THEN existing_urls
                ELSE Append(existing_urls, Head(urls)),
                Tail(urls))

\* lines 113-114: summary after the merge of urls under summary_key
Merge(summary, summary_key, urls) ==
    LET refs == IF summary_key \in Keys(summary.references)
                THEN summary.references
                ELSE Put(summary.references, summary_key, <<>>)
    IN  [summary EXCEPT
            !.references = Put(refs, summary_key, Extend(Get(refs, summary_key), urls))]

\* the file system after update_backup_sources_json(cached_path, conanfile, urls)
Updated(files, clock, cached_path, conanfile, urls) ==
    LET summary_path == cached_path \o ".json"
        summary == ReadSummary(files, summary_path, clock)
    IN  Save(files, summary_path,
             JsonDumps(Merge(summary, SummaryKey(conanfile), AsList(urls))))

EmptySupplied == [p \in {source_path(sha) : sha \in Shas} |-> <<>>]

\* no update_backup_sources_json is between its load and its save
NotLoaded == [t \in Threads |-> [bound |-> FALSE]]

IdleMeta ==
    /\ backupsDir = FALSE
    /\ fs = EmptyFs
    /\ now = 0
    /\ lastCall = NoCall
    /\ repeated = FALSE
    /\ before = EmptyFs
    /\ supplied = EmptySupplied
    /\ loaded = NotLoaded

\* the blobs have been downloaded and none has a sidecar yet
InitMeta ==
    /\ backupsDir = TRUE
    /\ fs = [p \in {source_path(sha) : sha \in Shas} |-> BlobContent]
    /\ now = 0
    /\ lastCall = NoCall
    /\ repeated = FALSE
    /\ before = EmptyFs
    /\ supplied = EmptySupplied
    /\ loaded = NotLoaded

\* lines 94-118
update_backup_sources_json(cached_path, conanfile, urls) ==
    /\ now < MaxCalls
    /\ fs' = Updated(fs, now, cached_path, conanfile, urls)
    /\ backupsDir' = TRUE
    /\ now' = now + 1
    /\ lastCall' = [made |-> TRUE, cached_path |-> cached_path,
                    conanfile |-> conanfile, urls |-> AsList(urls)]
    /\ repeated' = (lastCall = [made |-> TRUE, cached_path |-> cached_path,
                                conanfile |-> conanfile, urls |-> AsList(urls)])
    /\ before' = fs
    /\ supplied' = [supplied EXCEPT ![cached_path] =
                       Put(@, SummaryKey(conanfile),
                           (IF SummaryKey(conanfile) \in Keys(@)
                            THEN Get(@, SummaryKey(conanfile)) ELSE <<>>)
                               \o AsList(urls))]
    /\ UNCHANGED <<lockVars, selVars, loaded>>

\* lines 98-112 of a call by thread t: summary is read from the sidecar
LoadSummary(t, cached_path, conanfile, urls) ==
    /\ ~loaded[t].bound
    /\ loaded' = [loaded EXCEPT ![t] =
                     [bound |-> TRUE, cached_path |-> cached_path,
                      summary_key |-> SummaryKey(conanfile), urls |-> AsList(urls),
                      summary |-> ReadSummary(fs, cached_path \o ".json", now)]]
    /\ supplied' = [supplied EXCEPT ![cached_path] =
                       Put(@, SummaryKey(conanfile),
                           (IF SummaryKey(conanfile) \in Keys(@)
                            THEN Get(@, SummaryKey(conanfile)) ELSE <<>>)
                               \o AsList(urls))]
    /\ UNCHANGED <<backupsDir, fs, now, lastCall, repeated, before>>

\* lines 113-118 of that call: the merged summary overwrites the sidecar
SaveSummary(t) ==
    /\ loaded[t].bound
    /\ fs' = Save(fs, loaded[t].cached_path \o ".json",
                  JsonDumps(Merge(loaded[t].summary, loaded[t].summary_key,
                                  loaded[t].urls)))
    /\ loaded' = [loaded EXCEPT ![t] = [bound |-> FALSE]]
    /\ UNCHANGED <<backupsDir, now, lastCall, repeated, before, supplied>>

IdleLock == InitLock /\ platform = "posix"

NextMeta ==
    \E sha \in Shas, conanfile \in ConanFiles, urls \in UrlArgs :
        update_backup_sources_json(source_path(sha), conanfile, urls)

IdleSelect == result = [called |-> FALSE] /\ selArgs = NoCall

InitMetaSpec == InitMeta /\ IdleLock /\ IdleSelect

SpecMeta == InitMetaSpec /\ [][NextMeta]_vars

-----------------------------------------------------------------------------
(* get_backup_sources_files_to_upload(excluded_urls, package_list)          *)

\* url.startswith(prefix)
StartsWith(s, prefix) ==
    Len(prefix) <= Len(s) /\ SubSeq(s, 1, Len(prefix)) = prefix

\* path.endswith(suffix)
EndsWith(s, suffix) ==
    Len(suffix) <= Len(s) /\ SubSeq(s, Len(s) - Len(suffix) + 1, Len(s)) = suffix

\* the names a folder listing of <root>/s can hold
Names == Shas \cup {sha \o ".json" : sha \in Shas}

\* the set of names returned by os.listdir(path_backups)
ListDir(files) == {n \in Names : Exists(files, Join2(path_backups, n))}

\* os.listdir returns the names in an arbitrary order
Listings(files) ==
    {l \in [1..Cardinality(ListDir(files)) -> ListDir(files)] :
        \A i, j \in DOMAIN l : l[i] = l[j] => i = j}

\* lines 58-59: excluded_urls, [] when None
ExcludedList(excluded_urls) ==
    IF excluded_urls.given THEN excluded_urls.items ELSE <<>>

HasExcludedUrlsAnyUrl(backup_urls, excluded_urls) ==
    \E i \in DOMAIN backup_urls : \E j \in DOMAIN excluded_urls :
        StartsWith(backup_urls[i], excluded_urls[j])

\* an empty URL list taken as not excluded
HasExcludedUrlsNotEmpty(backup_urls, excluded_urls) ==
    /\ backup_urls # <<>>
    /\ \A i \in DOMAIN backup_urls : \E j \in DOMAIN excluded_urls :
          StartsWith(backup_urls[i], excluded_urls[j])

\* lines 61-64
has_excluded_urls(backup_urls, excluded_urls) ==
    \A i \in DOMAIN backup_urls : \E j \in DOMAIN excluded_urls :
        StartsWith(backup_urls[i], excluded_urls[j])

\* a package counts only when all its revisions are marked
ShouldUploadSourcesAll(package) ==
    \A prev \in DOMAIN package.revisions : package.revisions[prev].upload

\* lines 66-67
should_upload_sources(package) ==
    \E prev \in DOMAIN package.revisions : package.revisions[prev].upload

\* ref.get("upload"), None when the key is missing
GetUpload(ref) == IF "upload" \in DOMAIN ref THEN ref["upload"] ELSE FALSE

\* ref.get("packages", {}).values()
GetPackages(ref) ==
    IF "packages" \in DOMAIN ref
    THEN {ref["packages"][p] : p \in DOMAIN ref["packages"]}
    ELSE {}

\* lines 69-74: all_refs
AllRefs(package_list) ==
    IF package_list.given
    THEN {Str(k) : k \in {k \in DOMAIN package_list.refs :
                GetUpload(package_list.refs[k])
                    \/ \E p \in GetPackages(package_list.refs[k]) :
                          should_upload_sources(p)}}
    ELSE {}

QualifiesEither(ref, urls, excluded_urls, package_list) ==
    ~has_excluded_urls(urls, excluded_urls)
        \/ (~package_list.given \/ ref \in AllRefs(package_list))

\* line 88: the condition on one reference key of a sidecar
Qualifies(ref, urls, excluded_urls, package_list) ==
    ~has_excluded_urls(urls, excluded_urls)
        /\ (~package_list.given \/ ref \in AllRefs(package_list))

RECURSIVE ForRefsNoBreak(_, _, _, _, _, _)
\* the loop over the reference keys without its break
ForRefsNoBreak(items, files_to_upload, metadata_path, blob_path, excluded_urls, package_list) ==
    IF items = <<>>
    THEN files_to_upload
    ELSE ForRefsNoBreak(Tail(items),
                        IF Qualifies(Head(items)[1], Head(items)[2], excluded_urls,
                                     package_list)
                        THEN files_to_upload \o <<metadata_path, blob_path>>
                        ELSE files_to_upload,
                        metadata_path, blob_path, excluded_urls, package_list)

RECURSIVE ForRefs(_, _, _, _, _, _)
\* lines 87-91: for ref, urls in refs.items(): ... append, append, break
ForRefs(items, files_to_upload, metadata_path, blob_path, excluded_urls, package_list) ==
    IF items = <<>>
    THEN files_to_upload
    ELSE IF Qualifies(Head(items)[1], Head(items)[2], excluded_urls, package_list)
         THEN files_to_upload \o <<metadata_path, blob_path>>
         ELSE ForRefs(Tail(items), files_to_upload, metadata_path, blob_path,
                      excluded_urls, package_list)

MissingMetadataMessage == "Missing metadata file for backup source "

RECURSIVE ForPaths(_, _, _, _, _)

MissingMetadataSkipped(listing, files, files_to_upload, excluded_urls, package_list) ==
    ForPaths(Tail(listing), files, files_to_upload, excluded_urls, package_list)

\* lines 82-83: raise ConanException(...)
MissingMetadata(listing, files, files_to_upload, excluded_urls, package_list) ==
    [raised |-> TRUE,
     message |-> MissingMetadataMessage \o Join2(path_backups, Head(listing))]

\* lines 76-92: for path in os.listdir(path_backups): ...; return files_to_upload
ForPaths(listing, files, files_to_upload, excluded_urls, package_list) ==
    IF listing = <<>>
    THEN [raised |-> FALSE, files |-> files_to_upload]
    ELSE IF EndsWith(Head(listing), ".json")
    THEN ForPaths(Tail(listing), files, files_to_upload, excluded_urls, package_list)
    ELSE LET blob_path == Join2(path_backups, Head(listing))
             metadata_path == blob_path \o ".json"
         IN  IF ~Exists(files, metadata_path)
             THEN MissingMetadata(listing, files, files_to_upload, excluded_urls,
                                  package_list)
             ELSE ForPaths(Tail(listing), files,
                           ForRefs(JsonLoads(files[metadata_path]).references,
                                   files_to_upload, metadata_path, blob_path,
                                   excluded_urls, package_list),
                           excluded_urls, package_list)

\* the excluded_urls argument: None or a list of URL prefixes
ExcludedArgs ==
    {[given |-> FALSE]} \cup
    {[given |-> TRUE, items |-> l] : l \in {<<>>, <<"x">>, <<"xa", "y">>}}

\* the "packages" dicts of a reference: package id -> revisions -> upload mark
NoUploadPackages ==
    [p \in {"p1"} |-> [revisions |-> [r \in {"r1"} |-> [upload |-> FALSE]]]]

LaterRevisionPackages ==
    [p \in {"p1"} |-> [revisions |-> [r \in {"r1", "r2"} |-> [upload |-> r = "r2"]]]]

SecondPackagePackages ==
    [p \in {"p1", "p2"} |-> [revisions |-> [r \in {"r1"} |-> [upload |-> p = "p2"]]]]

\* what package_list.refs() records for one reference
RefBundles ==
    {[k \in {"upload"} |-> b] : b \in BOOLEAN}
        \cup {[k \in {"packages"} |-> LaterRevisionPackages]}
        \cup {[k \in {"upload", "packages"} |-> IF k = "upload" THEN FALSE ELSE pk] :
                 pk \in {NoUploadPackages, SecondPackagePackages}}
        \cup {[k \in {} |-> FALSE]}

\* the package_list argument: None or a package list
PackageLists ==
    {[given |-> FALSE]} \cup
    {[given |-> TRUE, refs |-> f] :
        f \in UNION {[R -> RefBundles] : R \in SUBSET Refs}}

NoResult == [called |-> FALSE]

\* the contents a sidecar can have after update_backup_sources_json calls
SelectKeys == {"pkg/1.0", "unknown"}

SelectUrlLists == {<<>>, <<"xa">>, <<"yc">>, <<"xa", "yc">>}

SelectReferences ==
    {d \in UNION {[1..n -> SelectKeys \X SelectUrlLists] : n \in 0..Cardinality(SelectKeys)} :
        \A i, j \in DOMAIN d : d[i][1] = d[j][1] => i = j}

\* the files of one blob: none, the blob alone, or the blob and its sidecar
BlobFiles(sha, refsChoices) ==
    {EmptyFs, source_path(sha) :> BlobContent}
        \cup {(source_path(sha) :> BlobContent) @@
              (source_path(sha) \o ".json" :>
                  JsonDumps([references |-> d, timestamp |-> 0])) :
                 d \in refsChoices}

InitSelect ==
    /\ backupsDir \in BOOLEAN
    /\ \E a \in BlobFiles("aa", SelectReferences),
          b \in BlobFiles("bb", {<< <<"dep/2.0", <<"yc">> >> >>}) :
          fs = IF backupsDir THEN a @@ b ELSE EmptyFs
    /\ now = 1
    /\ lastCall = NoCall
    /\ repeated = FALSE
    /\ before = EmptyFs
    /\ supplied = EmptySupplied
    /\ loaded = NotLoaded
    /\ result = NoResult
    /\ selArgs = NoCall

\* lines 48-92
get_backup_sources_files_to_upload(excluded_urls, package_list, listing) ==
    /\ result' =
          [called |-> TRUE,
           all_refs |-> IF backupsDir THEN AllRefs(package_list) ELSE {},
           outcome |-> IF ~backupsDir
                       THEN [raised |-> FALSE, files |-> <<>>]
                       ELSE ForPaths(listing, fs, <<>>, ExcludedList(excluded_urls),
                                     package_list)]
    /\ selArgs' = [made |-> TRUE, excluded_urls |-> excluded_urls,
                   package_list |-> package_list, listing |-> listing]
    /\ UNCHANGED <<lockVars, metaVars>>

\* one call, on a folder and with arguments of any kind
NextSelect ==
    /\ ~result.called
    /\ \E excluded_urls \in ExcludedArgs, package_list \in PackageLists,
          listing \in Listings(fs) :
           get_backup_sources_files_to_upload(excluded_urls, package_list, listing)

InitSelectSpec == InitSelect /\ IdleLock

\* the keys and URL lists of a sidecar found by an update; a list written by
\* another tool may repeat a URL
MergeKeys == {"pkg/1.0", "dep/2.0", "unknown"}

MergeUrlLists == {<<>>, <<"xa">>, <<"xa", "xa">>, <<"xb", "xa">>, <<"xa", "xb", "xa">>}

MergeReferences ==
    {d \in UNION {[1..n -> MergeKeys \X MergeUrlLists] : n \in 0..2} :
        \A i, j \in DOMAIN d : d[i][1] = d[j][1] => i = j}

\* a blob whose sidecar may exist already, written at time 0
InitMerge ==
    /\ backupsDir = TRUE
    /\ \E a \in BlobFiles("aa", MergeReferences) \ {EmptyFs} :
          fs = a @@ (source_path("bb") :> BlobContent)
    /\ now = 1
    /\ lastCall = NoCall
    /\ repeated = FALSE
    /\ before = EmptyFs
    /\ supplied = EmptySupplied
    /\ loaded = NotLoaded
    /\ IdleLock
    /\ IdleSelect

\* one update of the sidecar
NextMerge ==
    /\ ~lastCall.made
    /\ \E conanfile \in ConanFiles, urls \in UrlArgs :
          update_backup_sources_json(source_path("aa"), conanfile, urls)

SpecMerge == InitMerge /\ [][NextMerge]_vars

SpecSelect == InitSelectSpec /\ [][NextSelect]_vars

-----------------------------------------------------------------------------
Init == InitLock /\ IdleMeta /\ IdleSelect

Next ==
    \/ \E t \in Threads, s \in Instances, id \in LockIds : Call(t, s, id)
    \/ \E t \in Threads : EnterSimpleLock(t)
    \/ \E t \in Threads : LookUpThreadLock(t)
    \/ \E t \in Threads : AcquireThreadLock(t)
    \/ \E t \in Threads, raised \in BOOLEAN : Body(t, raised)
    \/ \E t \in Threads : ReleaseThreadLock(t)
    \/ \E t \in Threads : ExitSimpleLock(t)
    \/ \E t \in Threads : Return(t)

Spec == Init /\ [][Next]_vars

\* the body of t's call is over: it has no call of lock() in progress
BodyOver(t) == \A f \in InnerFrames : ThreadOf(f) = t => pc[f] = "idle"

\* lock() with a thread whose bodies may call lock() again, on any instance
\* and lock id, next to threads that call lock("x") on one instance
NextReentrant ==
    \/ \E t \in Threads, s \in Instances, id \in LockIds :
          /\ (\A f \in InnerFrames : ThreadOf(f) # t) => (s = "i1" /\ id = "x")
          /\ Call(t, s, id)
    \/ \E f \in InnerFrames, s \in Instances, id \in LockIds :
          pc[ThreadOf(f)] = "body" /\ Call(f, s, id)
    \/ \E t \in Frames : EnterSimpleLock(t)
    \/ \E t \in Frames : LookUpThreadLock(t)
    \/ \E t \in Frames : AcquireThreadLock(t)
    \/ \E t \in Frames, raised \in BOOLEAN : BodyOver(t) /\ Body(t, raised)
    \/ \E t \in Frames : ReleaseThreadLock(t)
    \/ \E t \in Frames : ExitSimpleLock(t)
    \/ \E t \in Frames : Return(t)

SpecReentrant == Init /\ [][NextReentrant]_vars

\* lock() where creating the lock file may fail
NextIOError ==
    \/ Next
    \/ \E t \in Threads : FailSimpleLock(t)

SpecIOError == Init /\ [][NextIOError]_vars

\* the URL thread t records in the sidecar
UrlOf(t) == IF t = "t1" THEN "xa" ELSE IF t = "t2" THEN "xb" ELSE "yc"

\* the sidecar all threads update, and the lock id they agreed on
SharedBlob == source_path("aa")

SharedLockId == "x"

\* t's update of the sidecar has started
Supplied(t) ==
    \E i \in DOMAIN supplied[SharedBlob] : InList(UrlOf(t), supplied[SharedBlob][i][2])

\* t's update of the sidecar has returned
UpdateReturned(t) == Supplied(t) /\ ~loaded[t].bound

InitLocked == InitLock /\ InitMeta /\ IdleSelect

\* every thread runs, once,
\*     with cache.lock("x"): update_backup_sources_json(blob, conanfile, [url])
NextLocked ==
    \/ \E t \in Threads, s \in Instances :
          ~Supplied(t) /\ Call(t, s, SharedLockId)
    \/ \E t \in Threads : EnterSimpleLock(t)
    \/ \E t \in Threads : LookUpThreadLock(t)
    \/ \E t \in Threads : AcquireThreadLock(t)
    \/ \E t \in Threads, conanfile \in ConanFiles :
          /\ pc[t] = "body" /\ ~Supplied(t)
          /\ LoadSummary(t, SharedBlob, conanfile, [type |-> "str", url |-> UrlOf(t)])
          /\ UNCHANGED <<lockVars, selVars>>
    \/ \E t \in Threads :
          /\ pc[t] = "body"
          /\ SaveSummary(t)
          /\ UNCHANGED <<lockVars, selVars>>
    \/ \E t \in Threads : UpdateReturned(t) /\ Body(t, FALSE)
    \/ \E t \in Threads : ReleaseThreadLock(t)
    \/ \E t \in Threads : ExitSimpleLock(t)
    \/ \E t \in Threads : Return(t)

SpecLocked == InitLocked /\ [][NextLocked]_vars

\* the threads call lock("x") on one DownloadCache object, again and again
NextFair ==
    \/ \E t \in Threads : Call(t, "i1", SharedLockId)
    \/ \E t \in Threads : EnterSimpleLock(t)
    \/ \E t \in Threads : LookUpThreadLock(t)
    \/ \E t \in Threads : AcquireThreadLock(t)
    \/ \E t \in Threads, raised \in BOOLEAN : Body(t, raised)
    \/ \E t \in Threads : ReleaseThreadLock(t)
    \/ \E t \in Threads : ExitSimpleLock(t)
    \/ \E t \in Threads : Return(t)

\* a thread inside lock() keeps running and its body ends; a lock that is
\* free again and again is granted to each of its waiters in the end
Fairness ==
    \A t \in Threads :
        /\ SF_vars(EnterSimpleLock(t))
        /\ WF_vars(LookUpThreadLock(t))
        /\ SF_vars(AcquireThreadLock(t))
        /\ WF_vars(\E raised \in BOOLEAN : Body(t, raised))
        /\ WF_vars(ReleaseThreadLock(t))
        /\ WF_vars(ExitSimpleLock(t))
        /\ WF_vars(Return(t))

SpecFair == Init /\ [][NextFair]_vars /\ Fairness

-----------------------------------------------------------------------------
(* The claims about lock().                                                 *)

InBody(t) == pc[t] = "body"

SameLock(t, u) ==
    /\ lock_id[t] # None
    /\ lock_id[t] = lock_id[u]
    /\ Path(self_[t]) = Path(self_[u])

\* t's call is past line 38 and has not left the with block of line 38
InsideWith(t) == pc[t] \in {"setdefault", "acquire", "body", "finally", "exit"}

\* t is waiting at line 38 or at line 42
Blocked(t) ==
    \/ pc[t] = "enter" /\ ~CanAcquireFile(t)
    \/ pc[t] = "acquire" /\ ~CanAcquireMutex(t)

\* C1: no two callers, of any thread of any process on the same cache root,
\* are inside the body of lock() for the same lock id at the same time.
C1_MutualExclusionAllProcesses ==
    \A t, u \in Threads : (t # u /\ InBody(t) /\ InBody(u)) => ~SameLock(t, u)

\* C2: two threads of one process, through the same or through different
\* DownloadCache instances on one cache root, are never both inside the body
\* for the same lock id, and both use the one mutex of the class-level registry.
C2_MutualExclusionInProcess ==
    \A t, u \in Threads :
        (t # u /\ ProcOf(t) = ProcOf(u) /\ SameLock(t, u)) =>
            /\ ~(InBody(t) /\ InBody(u))
            /\ (thread_lock[t] # Unbound /\ thread_lock[u] # Unbound)
                   => thread_lock[t] = thread_lock[u]

\* two threads of one process, on different instances, have both been granted
\* the file lock for one lock id: one is in the body, the other waits for the mutex
C2_Witness ==
    \E t, u \in Threads :
        /\ t # u /\ ProcOf(t) = ProcOf(u) /\ SameLock(t, u)
        /\ self_[t] # self_[u]
        /\ InBody(t) /\ pc[u] = "acquire" /\ Blocked(u)

\* C3: once lock() has exited, by return or by raise, the call released the
\* mutex first and the file lock second and the caller holds neither; when no
\* call is in progress every file lock and every mutex can be granted.
C3_ReleaseOrder ==
    /\ \A t \in Threads : pc[t] = "done" =>
          /\ released[t] = <<"mutex", "file">>
          /\ t \notin fileLock[lock[t]]
          /\ mutexHolder[thread_lock[t]] # t
    /\ (\A t \in Threads : pc[t] \in {"idle", "done"}) =>
          /\ \A p \in Paths : fileLock[p] = {}
          /\ \A m \in Mutexes : mutexHolder[m] = Free

\* one call has exited by raise and another by return
C3_Witness ==
    \E t, u \in Threads :
        /\ pc[t] = "done" /\ exc[t]
        /\ pc[u] = "done" /\ ~exc[u]
        /\ SameLock(t, u)

\* C8: a caller waiting in lock(y) waits only for a caller of the same lock id:
\* whoever is blocked has another caller inside lock() for its own lock id.
C8_DifferentIdsNeverContend ==
    \A t \in Threads :
        Blocked(t) => \E u \in Threads : u # t /\ SameLock(t, u) /\ InsideWith(u)

\* two threads of one process are inside the bodies of lock(x) and lock(y)
C8_Witness ==
    \E t, u \in Threads :
        /\ t # u /\ ProcOf(t) = ProcOf(u)
        /\ InBody(t) /\ InBody(u)
        /\ lock_id[t] # lock_id[u]
        /\ Path(self_[t]) = Path(self_[u])

-----------------------------------------------------------------------------
(* The claims about update_backup_sources_json.                             *)

\* the references recorded by the sidecar of cached_path in files: key -> URLs
References(files, cached_path) ==
    IF Exists(files, cached_path \o ".json")
    THEN JsonLoads(files[cached_path \o ".json"]).references
    ELSE <<>>

Timestamp(files, cached_path) == JsonLoads(files[cached_path \o ".json"]).timestamp

NoDuplicates(l) == \A i, j \in DOMAIN l : l[i] = l[j] => i = j

\* the elements of s in the order of their first occurrence
FirstSeen(s) ==
    LET firsts == {i \in DOMAIN s : \A j \in 1..(i - 1) : s[j] # s[i]}
        Rank(i) == Cardinality({j \in firsts : j <= i})
    IN  [k \in 1..Cardinality(firsts) |-> s[CHOOSE i \in firsts : Rank(i) = k]]

BlobPaths == {source_path(sha) : sha \in Shas}

\* C4: a call that repeats the arguments of the call before it leaves every
\* file, the sidecar with its URL lists and its timestamp, as that call left it.
C4_Idempotent == repeated => fs = before

\* a call with two different URLs has been repeated on a sidecar
C4_Witness ==
    /\ repeated
    /\ Len(lastCall.urls) = 2
    /\ lastCall.urls[1] # lastCall.urls[2]
    /\ Get(References(fs, lastCall.cached_path), SummaryKey(lastCall.conanfile))
           = lastCall.urls

\* C5: from absent sidecars, after any calls, each key of each sidecar lists
\* without duplicate the URLs supplied for it, in the order of first supply.
C5_FirstSeenOrder ==
    \A p \in BlobPaths :
        /\ Keys(References(fs, p)) = Keys(supplied[p])
        /\ \A k \in Keys(supplied[p]) :
              /\ NoDuplicates(Get(References(fs, p), k))
              /\ Get(References(fs, p), k) = FirstSeen(Get(supplied[p], k))

\* ["xa", "xb"] and then ["xb", "yc"] were supplied and ["xa", "xb", "yc"] is recorded
C5_Witness ==
    \E p \in BlobPaths : \E k \in Keys(supplied[p]) :
        /\ Get(supplied[p], k) = <<"xa", "xb", "xb", "yc">>
        /\ lastCall.urls = <<"xb", "yc">>
        /\ Get(References(fs, p), k) = <<"xa", "xb", "yc">>

\* C9: a sidecar that existed before the latest call keeps its timestamp, and
\* a sidecar that the call created is stamped with the time of the call.
C9_TimestampSetOnce ==
    \A p \in BlobPaths : Exists(fs, p \o ".json") =>
        IF Exists(before, p \o ".json")
        THEN Timestamp(fs, p) = Timestamp(before, p)
        ELSE Timestamp(fs, p) = now - 1

\* the third call on a sidecar has added a new key, after the clock moved on
C9_Witness ==
    /\ lastCall.made
    /\ now = 3
    /\ Timestamp(fs, lastCall.cached_path) = 0
    /\ Cardinality(Keys(References(fs, lastCall.cached_path))) = 3

\* the key the claim expects for a conanfile
C10_ExpectedKey(conanfile) ==
    IF ~conanfile.has_ref THEN "unknown"
    ELSE IF conanfile.ref.name = "pkg" THEN "pkg/1.0" ELSE "dep/2.0"

\* C10: the latest call stored its URLs under "unknown" when the conanfile has
\* no reference and under the textual form of the reference otherwise, and it
\* touched no other key.
C10_KeyOfUpdate ==
    lastCall.made =>
        LET old == References(before, lastCall.cached_path)
            new == References(fs, lastCall.cached_path)
            key == C10_ExpectedKey(lastCall.conanfile)
        IN  /\ key \in Keys(new)
            /\ \A i \in DOMAIN lastCall.urls : InList(lastCall.urls[i], Get(new, key))
            /\ \A k \in Keys(new) \ {key} : k \in Keys(old) /\ Get(new, k) = Get(old, k)
            /\ ("unknown" \in Keys(new) \ Keys(old)) <=> 
                   (~lastCall.conanfile.has_ref /\ "unknown" \notin Keys(old))

\* a conanfile without reference has stored a URL under "unknown", next to a reference
C10_Witness ==
    /\ lastCall.made
    /\ ~lastCall.conanfile.has_ref
    /\ lastCall.urls # <<>>
    /\ "unknown" \notin Keys(References(before, lastCall.cached_path))
    /\ Keys(References(fs, lastCall.cached_path)) = {"pkg/1.0", "unknown"}
    /\ Get(References(fs, lastCall.cached_path), "unknown") = lastCall.urls

-----------------------------------------------------------------------------
(* The claims about get_backup_sources_files_to_upload.                     *)

\* the call has returned a list
Returned == result.called /\ ~result.outcome.raised

\* some URL of the list starts with none of the prefixes
C6_NotAllExcluded(urls, prefixes) ==
    \E i \in DOMAIN urls : \A j \in DOMAIN prefixes : ~StartsWith(urls[i], prefixes[j])

\* the excluded prefixes of the call, none when the argument is unset
C6_Prefixes == IF selArgs.excluded_urls.given THEN selArgs.excluded_urls.items ELSE <<>>

\* C6: the returned list holds a blob exactly when its sidecar records a key
\* whose URLs are not all excluded and that is eligible or needs no selection.
C6_IncludedIff ==
    Returned =>
        \A sha \in Shas :
            InList(source_path(sha), result.outcome.files) <=>
                /\ backupsDir
                /\ Exists(fs, source_path(sha))
                /\ \E i \in DOMAIN References(fs, source_path(sha)) :
                      LET item == References(fs, source_path(sha))[i]
                      IN  /\ C6_NotAllExcluded(item[2], C6_Prefixes)
                          /\ \/ ~selArgs.package_list.given
                             \/ item[1] \in AllRefs(selArgs.package_list)

\* with prefixes and a selection given, one blob with sidecar is returned and
\* the other blob with sidecar is not
C6_Witness ==
    /\ Returned
    /\ selArgs.package_list.given
    /\ selArgs.excluded_urls.given
    /\ selArgs.excluded_urls.items # <<>>
    /\ InList(source_path("aa"), result.outcome.files)
    /\ Exists(fs, source_path("bb") \o ".json")
    /\ ~InList(source_path("bb"), result.outcome.files)

\* a blob of the folder has no sidecar
C7_Orphan(sha) ==
    /\ backupsDir
    /\ Exists(fs, source_path(sha))
    /\ ~Exists(fs, source_path(sha) \o ".json")

\* C7: when some blob of the folder has no sidecar the call raises the
\* missing-metadata error for such a blob and returns no list.
C7_MissingSidecarRaises ==
    (result.called /\ \E sha \in Shas : C7_Orphan(sha)) =>
        /\ result.outcome.raised
        /\ "files" \notin DOMAIN result.outcome
        /\ \E sha \in Shas :
              /\ C7_Orphan(sha)
              /\ result.outcome.message = MissingMetadataMessage \o source_path(sha)

\* the call raised for blob bb although blob aa, listed before it, qualified
C7_Witness ==
    /\ result.called
    /\ result.outcome.raised
    /\ result.outcome.message = MissingMetadataMessage \o source_path("bb")
    /\ ~selArgs.package_list.given
    /\ ~selArgs.excluded_urls.given
    /\ selArgs.listing[1] = "aa"
    /\ \E i \in DOMAIN References(fs, source_path("aa")) :
          References(fs, source_path("aa"))[i][2] # <<>>

-----------------------------------------------------------------------------
\* a reference of the selection carries an upload mark of its own
C11_RefMarked(bundle) == "upload" \in DOMAIN bundle /\ bundle["upload"] = TRUE

\* some revision of some binary package of the reference carries an upload mark
C11_RevisionMarked(bundle) ==
    /\ "packages" \in DOMAIN bundle
    /\ \E p \in DOMAIN bundle["packages"] :
          \E r \in DOMAIN bundle["packages"][p].revisions :
              bundle["packages"][p].revisions[r].upload = TRUE

\* C11: with a package selection, the eligible set of a call holds exactly the
\* references that are marked for upload themselves or that have a binary
\* package with a revision marked for upload; no unmarked reference is in it.
C11_EligibleIff ==
    (result.called /\ backupsDir /\ selArgs.package_list.given) =>
        /\ \A k \in DOMAIN selArgs.package_list.refs :
              Str(k) \in result.all_refs <=>
                  \/ C11_RefMarked(selArgs.package_list.refs[k])
                  \/ C11_RevisionMarked(selArgs.package_list.refs[k])
        /\ result.all_refs \subseteq {Str(k) : k \in DOMAIN selArgs.package_list.refs}

\* one reference is eligible only through a later revision of a package that
\* also has an unmarked revision, the other one carries no mark at all
C11_Witness ==
    /\ result.called
    /\ backupsDir
    /\ selArgs.package_list.given
    /\ \E k, u \in DOMAIN selArgs.package_list.refs :
          /\ selArgs.package_list.refs[k] = [x \in {"packages"} |-> LaterRevisionPackages]
          /\ Str(k) \in result.all_refs
          /\ ~C11_RefMarked(selArgs.package_list.refs[u])
          /\ ~C11_RevisionMarked(selArgs.package_list.refs[u])
          /\ "packages" \in DOMAIN selArgs.package_list.refs[u]
          /\ Str(u) \notin result.all_refs

\* the sidecar of the blob records the "unknown" key and no other key
C12_OnlyUnknown(sha) ==
    /\ Exists(fs, source_path(sha))
    /\ Exists(fs, source_path(sha) \o ".json")
    /\ Len(References(fs, source_path(sha))) = 1
    /\ References(fs, source_path(sha))[1][1] = "unknown"

\* C12: a blob whose sidecar records only the "unknown" key is not returned
\* when a package selection is passed; without a selection it is returned when
\* some URL of the key starts with none of the excluded prefixes.
C12_UnknownOnlyWithoutSelection ==
    Returned =>
        \A sha \in Shas :
            (backupsDir /\ C12_OnlyUnknown(sha)) =>
                /\ selArgs.package_list.given =>
                      ~InList(source_path(sha), result.outcome.files)
                /\ (/\ ~selArgs.package_list.given
                    /\ C6_NotAllExcluded(References(fs, source_path(sha))[1][2],
                                         C6_Prefixes))
                      => InList(source_path(sha), result.outcome.files)

\* a selection that marks every reference is passed, the URLs of the
\* "unknown" key are not excluded, and the blob is left out
C12_Witness ==
    /\ Returned
    /\ backupsDir
    /\ C12_OnlyUnknown("aa")
    /\ selArgs.package_list.given
    /\ DOMAIN selArgs.package_list.refs = Refs
    /\ \A k \in Refs : C11_RefMarked(selArgs.package_list.refs[k])
    /\ C6_NotAllExcluded(References(fs, source_path("aa"))[1][2], C6_Prefixes)
    /\ ~InList(source_path("aa"), result.outcome.files)
    /\ InList(source_path("bb"), result.outcome.files)

\* the number of reference keys of the blob's sidecar that qualify in the call
C15_QualifyingKeys(sha) ==
    Cardinality({i \in DOMAIN References(fs, source_path(sha)) :
        LET item == References(fs, source_path(sha))[i]
        IN  /\ C6_NotAllExcluded(item[2], C6_Prefixes)
            /\ \/ ~selArgs.package_list.given
               \/ item[1] \in result.all_refs})

C15_Reverse(s) == [i \in 1..Len(s) |-> s[Len(s) + 1 - i]]

\* C15: the returned list is a sequence of pairs, the path of a sidecar
\* followed by the path of its blob; no blob occurs twice, however many of its
\* keys qualify; and a blob is in the list exactly when the loop over its keys
\* taken in the opposite order would have added it.
C15_OnePairPerBlob ==
    Returned =>
        LET files == result.outcome.files
        IN  /\ Len(files) % 2 = 0
            /\ \A i \in DOMAIN files :
                  IF i % 2 = 1
                  THEN /\ files[i + 1] \in BlobPaths
                       /\ files[i] = files[i + 1] \o ".json"
                  ELSE files[i] \in BlobPaths
            /\ NoDuplicates(files)
            /\ \A sha \in Shas :
                  (backupsDir /\ Exists(fs, source_path(sha))) =>
                      (InList(source_path(sha), files) <=>
                          ForRefs(C15_Reverse(References(fs, source_path(sha))),
                                  <<>>, source_path(sha) \o ".json",
                                  source_path(sha),
                                  C6_Prefixes, selArgs.package_list) # <<>>)

\* both blobs are returned and two keys of the first one qualify, the first
\* key examined being the last one in the opposite order
C15_Witness ==
    /\ Returned
    /\ backupsDir
    /\ C15_QualifyingKeys("aa") = 2
    /\ Len(result.outcome.files) = 4
    /\ InList(source_path("aa"), result.outcome.files)
    /\ InList(source_path("bb"), result.outcome.files)

\* every reference key of the blob's sidecar has an empty URL list
C16_OnlyEmptyLists(sha) ==
    \A i \in DOMAIN References(fs, source_path(sha)) :
        References(fs, source_path(sha))[i][2] = <<>>

\* C16: a blob whose keys all have an empty URL list, or whose sidecar has no
\* key, is not returned, whatever the excluded prefixes and the selection;
\* with no excluded prefix and no selection a blob is returned exactly when
\* one of its keys has a URL.
C16_EmptyListExcluded ==
    Returned =>
        \A sha \in Shas :
            (backupsDir /\ Exists(fs, source_path(sha))) =>
                /\ C16_OnlyEmptyLists(sha) =>
                      ~InList(source_path(sha), result.outcome.files)
                /\ (C6_Prefixes = <<>> /\ ~selArgs.package_list.given) =>
                      (InList(source_path(sha), result.outcome.files)
                          <=> ~C16_OnlyEmptyLists(sha))

\* an eligible key with an empty URL list keeps its blob out of a call made
\* with an empty list of prefixes and a selection, next to a returned blob
C16_Witness ==
    /\ Returned
    /\ backupsDir
    /\ References(fs, source_path("aa")) # <<>>
    /\ C16_OnlyEmptyLists("aa")
    /\ selArgs.excluded_urls.given
    /\ selArgs.excluded_urls.items = <<>>
    /\ selArgs.package_list.given
    /\ \E i \in DOMAIN References(fs, source_path("aa")) :
          References(fs, source_path("aa"))[i][1] \in result.all_refs
    /\ ~InList(source_path("aa"), result.outcome.files)
    /\ InList(source_path("bb"), result.outcome.files)

-----------------------------------------------------------------------------
C17_IsPrefix(s, t) == Len(s) <= Len(t) /\ \A i \in DOMAIN s : t[i] = s[i]

\* C17: an update of an existing sidecar for key R leaves the timestamp, every
\* other file, the keys in their order and the list of every other key as they
\* were; R's former list is a prefix of R's new list, and what follows it are
\* URLs of the call.
C17_AppendOnly ==
    (lastCall.made /\ Exists(before, lastCall.cached_path \o ".json")) =>
        LET old == References(before, lastCall.cached_path)
            new == References(fs, lastCall.cached_path)
            key == C10_ExpectedKey(lastCall.conanfile)
        IN  /\ Timestamp(fs, lastCall.cached_path) = Timestamp(before, lastCall.cached_path)
            /\ DOMAIN fs = DOMAIN before
            /\ \A p \in DOMAIN before \ {lastCall.cached_path \o ".json"} :
                  fs[p] = before[p]
            /\ Len(new) = Len(old) + (IF key \in Keys(old) THEN 0 ELSE 1)
            /\ \A i \in DOMAIN old :
                  /\ new[i][1] = old[i][1]
                  /\ old[i][1] # key => new[i][2] = old[i][2]
                  /\ old[i][1] = key => C17_IsPrefix(old[i][2], new[i][2])
            /\ \A i \in DOMAIN Get(new, key) :
                  \/ i <= Len(IF key \in Keys(old) THEN Get(old, key) ELSE <<>>)
                  \/ InList(Get(new, key)[i], lastCall.urls)

\* the list of R repeated a URL before the call, the call supplied that URL
\* and a new one, and only the new one was appended; another key is untouched
C17_Witness ==
    /\ lastCall.made
    /\ Exists(before, lastCall.cached_path \o ".json")
    /\ lastCall.conanfile.has_ref
    /\ Keys(References(before, lastCall.cached_path)) =
           {C10_ExpectedKey(lastCall.conanfile), "unknown"}
    /\ Get(References(before, lastCall.cached_path),
           C10_ExpectedKey(lastCall.conanfile)) = <<"xa", "xb", "xa">>
    /\ lastCall.urls = <<"xa", "yc">>
    /\ Get(References(fs, lastCall.cached_path),
           C10_ExpectedKey(lastCall.conanfile)) = <<"xa", "xb", "xa", "yc">>
    /\ Get(References(fs, lastCall.cached_path), "unknown") = <<"xa", "xa">>

-----------------------------------------------------------------------------
\* every entry of every registry is still there, with the same mutex, after the step
C19_EntriesKept ==
    \A p \in Procs : \A k \in DOMAIN registry[p] :
        k \in DOMAIN registry'[p] /\ registry'[p][k] = registry[p][k]

\* the mutex a call got from line 41 is the registry entry of its lock path
C19_UsesEntry ==
    \A t \in Threads : thread_lock[t] # Unbound =>
        /\ lock[t] \in DOMAIN registry[ProcOf(t)]
        /\ thread_lock[t] = registry[ProcOf(t)][lock[t]]

\* C19: the registry of a process maps a lock path to one mutex for good: every
\* call that looked the path up holds the mutex the registry has for it, and
\* no step removes an entry or replaces its mutex, so the keys only grow.
C19_RegistryOnlyGrows == [](C19_UsesEntry) /\ [][C19_EntriesKept]_vars

\* two threads of a process, each past line 41 on the first uses of a lock id,
\* wait for the same mutex, the one the first of them created
C19_Witness ==
    \E t, u \in Threads :
        /\ t # u /\ ProcOf(t) = ProcOf(u)
        /\ pc[t] = "acquire" /\ pc[u] = "acquire"
        /\ lock[t] = lock[u]
        /\ DOMAIN registry[ProcOf(t)] = {lock[t]}
        /\ thread_lock[t] = NewLock(t, lock[t])
        /\ thread_lock[u] = NewLock(t, lock[t])
        /\ mutexHolder[thread_lock[t]] = Free

-----------------------------------------------------------------------------
\* the inner call f asks for the lock file its thread's outer call is holding
C13_SameLockAgain(f) == pc[f] # "idle" /\ lock[f] = lock[ThreadOf(f)]

\* C13: a call of lock() made from the body of the thread's own call for the
\* same lock id stays before its body, at line 38, 41 or 42, and the outer call
\* stays in its body: neither ever gets further.
C13_ReentryBlocks ==
    \A f \in InnerFrames :
        C13_SameLockAgain(f) =>
            /\ pc[f] \in {"enter", "setdefault", "acquire"}
            /\ pc[ThreadOf(f)] = "body"
            /\ ~BodyOver(ThreadOf(f))

\* the inner call was granted the file lock again and waits for the mutex its
\* own thread holds, through another instance on the same cache root
C13_Witness ==
    \E f \in InnerFrames :
        /\ C13_SameLockAgain(f)
        /\ self_[f] # self_[ThreadOf(f)]
        /\ pc[f] = "acquire"
        /\ thread_lock[f] = thread_lock[ThreadOf(f)]
        /\ mutexHolder[thread_lock[f]] = ThreadOf(f)
        /\ Blocked(f)

\* C14: a call that failed at the file lock has not run the body and reaches
\* the caller as an error; it holds no file lock and no mutex; whoever waits
\* waits for a call that got the file lock, and with every call over or failed
\* every lock can be granted.
C14_FailedCallHoldsNothing ==
    /\ \A t \in Threads :
          (exc[t] /\ pc[t] \notin {"finally", "exit", "done"}) =>
              /\ pc[t] = "failed"
              /\ released[t] = <<>>
              /\ thread_lock[t] = Unbound
              /\ t \notin fileLock[lock[t]]
              /\ \A m \in Mutexes : mutexHolder[m] # t
    /\ \A u \in Threads :
          Blocked(u) => \E w \in Threads : w # u /\ SameLock(u, w) /\ InsideWith(w)
    /\ (\A t \in Threads : pc[t] \in {"idle", "done", "failed"}) =>
          /\ \A p \in Paths : fileLock[p] = {}
          /\ \A m \in Mutexes : mutexHolder[m] = Free

\* one call has failed at the file lock while a thread of its process and a
\* thread of another process are in lock() for the same lock id, one in the body
C14_Witness ==
    \E t, u, w \in Threads :
        /\ pc[t] = "failed"
        /\ ProcOf(u) = ProcOf(t) /\ u # t /\ ProcOf(w) # ProcOf(t)
        /\ SameLock(t, u) /\ SameLock(t, w)
        /\ pc[u] = "body"
        /\ pc[w] \in {"enter", "body"}

-----------------------------------------------------------------------------
\* the number of times x occurs in l
C18_Count(x, l) == Cardinality({i \in DOMAIN l : l[i] = x})

\* every thread has made its update inside lock("x") and has left lock()
C18_AllReturned == \A t \in Threads : UpdateReturned(t) /\ pc[t] = "idle"

\* C18: once every update made inside lock("x") has returned, the sidecar
\* records under each key every URL a call supplied for it, exactly once.
C18_NoLostUpdate ==
    C18_AllReturned =>
        \A i \in DOMAIN supplied[SharedBlob] :
            LET key == supplied[SharedBlob][i][1]
                urls == supplied[SharedBlob][i][2]
            IN  /\ key \in Keys(References(fs, SharedBlob))
                /\ \A j \in DOMAIN urls :
                      C18_Count(urls[j], Get(References(fs, SharedBlob), key)) = 1

-----------------------------------------------------------------------------
\* while a call is in progress, some call in progress can take its next step
C20_NoDeadlock ==
    (\E t \in Threads : pc[t] # "idle") =>
        \E t \in Threads : pc[t] # "idle" /\ ~Blocked(t)

\* t's call has left lock() and holds neither lock
C20_Returned(t) ==
    IF pc[t] = "done"
    THEN /\ released[t] = <<"mutex", "file">>
         /\ t \notin fileLock[lock[t]]
         /\ mutexHolder[thread_lock[t]] # t
    ELSE FALSE

\* C20: with bodies that end and do not call lock(), the calls in progress are
\* never all blocked, and with locks granted fairly every call of lock()
\* reaches its body and later returns, holding neither lock.
C20_EveryCallReturns ==
    /\ [](C20_NoDeadlock)
    /\ \A t \in Threads :
          /\ (pc[t] = "enter") ~> (pc[t] = "body")
          /\ (pc[t] = "enter") ~> C20_Returned(t)

\* three calls for one lock id: one is in the body, a thread of its process
\* waits for the mutex and a thread of another process waits for the file lock
C20_Witness ==
    \E t, u, w \in Threads :
        /\ ProcOf(t) = ProcOf(u) /\ t # u /\ ProcOf(w) # ProcOf(t)
        /\ SameLock(t, u) /\ SameLock(t, w)
        /\ pc[t] = "body"
        /\ pc[u] = "acquire" /\ Blocked(u)
        /\ pc[w] = "enter" /\ Blocked(w)

-----------------------------------------------------------------------------
TypeOK ==
    /\ platform \in Platforms
    /\ pc \in [Frames -> {"idle", "enter", "setdefault", "acquire", "body",
                          "finally", "exit", "done", "failed"}]
    /\ \A t \in Frames : thread_lock[t] \in Mutexes \cup {Unbound}
    /\ \A p \in Paths : fileLock[p] \subseteq Frames

====
